---- MODULE Spec2Model ----
(***************************************************************************)
(* Dialogue routing and session memory of the Isvaryam chatbot             *)
(* (src/app.py): detect_intent, handle_intents, llama_chat and the         *)
(* /chatbot route with its module-level conversation_context dictionary.   *)
(*                                                                         *)
(* Python str values are modelled as sequences of one-character strings,   *)
(* so lower(), strip() and the `in` substring test are computed, not       *)
(* assumed.  Python list objects live in a heap of references, because     *)
(* `hist` in chatbot() may be the very list stored in                      *)
(* conversation_context (dict.get returns the stored object).              *)
(***************************************************************************)
EXTENDS Integers, Sequences, FiniteSets, TLC

\* ------------------------------------------------------------------ bounds
\* Number of Flask worker threads that may run chatbot() at the same time.
NumThreads == 2
\* Number of /chatbot requests accepted in one behaviour.
MaxCalls == 2
\* Number of text fragments concatenated to build a probe text.
MaxFragments == 3
\* Largest number of fallback round-trips a session has behind it when the
\* behaviour starts.
MaxWarm == 5

\* --------------------------------------------------------- program constants
\* hist[-10:]
H == 10

Threads == 1..NumThreads

\* ------------------------------------------------------------ Python values
\* None, where the code holds `str | None` (a text is a sequence of
\* one-character strings, so this one-element sequence is no text).
None == <<"<None>">>
\* None as the result of detect_intent (labels are only compared).
NoIntent == "<None>"
\* None as a user_id (JSON null).
NoneKey == "<None>"
\* A request field that is not present in request.json.
Missing == <<"<missing>">>
MissingKey == "<missing>"

\* str.lower() on one character (ASCII letters).
UpperCase == <<"A","B","C","D","E","F","G","H","I","J","K","L","M",
               "N","O","P","Q","R","S","T","U","V","W","X","Y","Z">>
LowerCase == <<"a","b","c","d","e","f","g","h","i","j","k","l","m",
               "n","o","p","q","r","s","t","u","v","w","x","y","z">>
lower_char(c) ==
    IF \E i \in 1..26 : UpperCase[i] = c
    THEN LowerCase[CHOOSE i \in 1..26 : UpperCase[i] = c]
    ELSE c

\* str.lower()
lower(text) == [i \in 1..Len(text) |-> lower_char(text[i])]

\* Mutant of contains: the operands of "in" are exchanged.
contains_reversed(sub, text) ==
    \E i \in 1..(Len(sub) - Len(text) + 1) :
        SubSeq(sub, i, i + Len(text) - 1) = text

\* `sub in text` for str operands
contains(sub, text) ==
    \E i \in 1..(Len(text) - Len(sub) + 1) :
        SubSeq(text, i, i + Len(sub) - 1) = sub

\* Characters str.strip() removes.
Whitespace == {" ", "\t", "\n"}

RECURSIVE lstrip(_)
lstrip(s) ==
    IF s # <<>> /\ Head(s) \in Whitespace THEN lstrip(Tail(s)) ELSE s

RECURSIVE rstrip(_)
rstrip(s) ==
    IF s # <<>> /\ s[Len(s)] \in Whitespace
    THEN rstrip(SubSeq(s, 1, Len(s) - 1))
    ELSE s

\* str.strip()
strip(s) == rstrip(lstrip(s))

\* Truth value of a `str | None` in an `if`.
truthy(x) == x # None /\ x # <<>>

\* list[-n:]
last_n(list, n) ==
    IF Len(list) <= n THEN list ELSE SubSeq(list, Len(list) - n + 1, Len(list))

\* request.json.get(key, default)
json_get(field, default) == IF field = Missing THEN default ELSE field
json_get_key(field, default) == IF field = MissingKey THEN default ELSE field

\* ------------------------------------------------------------ intent rules
GreetKeywords == << <<"h","i">>, <<"h","e","l","l","o">>, <<"h","e","y">> >>
PriceKeyword == <<"p","r","i","c","e">>

\* Mutant of detect_intent: the "price" rule is tried first.
detect_intent_price_first(text) ==
    LET t == lower(text) IN
    IF contains(PriceKeyword, t)
    THEN "price"
    ELSE IF \E k \in 1..Len(GreetKeywords) : contains(GreetKeywords[k], t)
    THEN "greet"
    ELSE NoIntent

detect_intent(text) ==
    LET t == lower(text) IN
    IF \E k \in 1..Len(GreetKeywords) : contains(GreetKeywords[k], t)
    THEN "greet"
    ELSE IF contains(PriceKeyword, t)
    THEN "price"
    ELSE NoIntent

\* The emoji of the salutations are written as code-point tokens.
GoodMorning == <<"G","o","o","d"," ","m","o","r","n","i","n","g"," ","U+2600","U+FE0F">>
GoodAfternoon == <<"G","o","o","d"," ","a","f","t","e","r","n","o","o","n"," ","U+1F324","U+FE0F">>
GoodEvening == <<"G","o","o","d"," ","e","v","e","n","i","n","g"," ","U+1F319">>
\* " I'm Isvaryam's assistant. How can I help you?"
GreetTail == <<" ","I","'","m"," ","I","s","v","a","r","y","a","m","'","s"," ","a","s","s","i","s","t","a","n","t","."," ","H","o","w"," ","c","a","n"," ","I"," ","h","e","l","p"," ","y","o","u","?">>
\* "Our price list is coming right up! (demo reply)"
PriceReply == <<"O","u","r"," ","p","r","i","c","e"," ","l","i","s","t"," ","i","s"," ","c","o","m","i","n","g"," ","r","i","g","h","t"," ","u","p","!"," ","(","d","e","m","o"," ","r","e","p","l","y",")">>

\* Mutant of salutation: noon still counts as morning.
salutation_noon_morning(hour) ==
    IF hour <= 12 THEN GoodMorning
    ELSE IF hour < 17 THEN GoodAfternoon
    ELSE GoodEvening

salutation(hour) ==
    IF hour < 12 THEN GoodMorning
    ELSE IF hour < 17 THEN GoodAfternoon
    ELSE GoodEvening

\* Mutant of handle_intents: the "price" branch is missing.
handle_intents_no_price(text, hour) ==
    IF detect_intent(text) = "greet" THEN salutation(hour) \o GreetTail
    ELSE None

\* handle_intents(text, user_id) with datetime.now().hour = hour
handle_intents(text, hour) ==
    LET intent == detect_intent(text) IN
    IF intent = "greet" THEN salutation(hour) \o GreetTail
    ELSE IF intent = "price" THEN PriceReply
    ELSE None

\* ------------------------------------------------------------------ inputs
\* "message" of request.json: "hi", "price", "oil", "" or not present.
RequestMessages ==
    { <<"h","i">>, <<"p","r","i","c","e">>, <<"o","i","l">>, <<>>, Missing }
\* "user_id" of request.json: a string, not present, or null.
RequestUserIds == { "u1", MissingKey, NoneKey }
\* The user_id values of the requests that are run concurrently.
ConcurrentUserIds == { "u1", MissingKey }
\* Keys under which conversation_context can come to hold a session.
SessionKeys == { json_get_key(u, "anon") : u \in RequestUserIds }
\* Keys of the sessions that may exist when the behaviour starts.
WarmKeys == { json_get_key(u, "anon") : u \in ConcurrentUserIds }
\* datetime.now().hour
Hours == {0, 11, 12, 16, 17, 23}
\* res["choices"][0]["message"]["content"] when the model call returns.
RawOutputs == { <<" ","o","k","\n">>, <<" ">> }

\* One ChatMessage.
Entry(role, content) == [role |-> role, content |-> content]

\* ------------------------------------------------------------------- state
VARIABLES
    conversation_context, \* key -> reference of its "history" list, if any
    heap,                 \* list objects: reference -> list of ChatMessage
    pc,                   \* thread -> position in chatbot()
    user_msg,             \* thread -> local user_msg
    user_id,              \* thread -> local user_id
    intent_reply,         \* thread -> local intent_reply
    hist,                 \* thread -> reference held by local hist
    messages,             \* thread -> messages passed to the model
    llama_reply,          \* thread -> local llama_reply
    response,             \* thread -> body of jsonify(response=...)
    terminal,             \* thread -> how the invocation ended
    generate_calls,       \* thread -> calls of llama_chat in this invocation
    calls,                \* number of requests received so far
    log,                  \* key -> every entry ever appended by extend
    probe                 \* text under test of the intent rules

vars == << conversation_context, heap, pc, user_msg, user_id, intent_reply,
           hist, messages, llama_reply, response, terminal, generate_calls,
           calls, log, probe >>

\* A dict of conversation_context that has no "history" key; also the value
\* of a local hist that holds no list.
NoRef == 0
\* One list per session key, one per running thread, one being built.
NumRefs == Cardinality(SessionKeys) + NumThreads + 1
Refs == 1..NumRefs

\* References reachable from the dictionary or from a thread's local.
Live(cc, hs) ==
    ({ cc[k] : k \in DOMAIN cc } \cup { hs[t] : t \in Threads }) \ {NoRef}

\* A new list object.
alloc(live) == CHOOSE r \in Refs \ live : \A q \in Refs \ live : r <= q

\* Unreachable list objects are reclaimed.
collect(hp, live) == [r \in Refs |-> IF r \in live THEN hp[r] ELSE <<>>]

\* conversation_context[key] of the defaultdict(dict): a missing key is
\* inserted with an empty dict.
defaultdict_get(cc, key) ==
    IF key \in DOMAIN cc THEN cc
    ELSE [k \in DOMAIN cc \cup {key} |-> IF k = key THEN NoRef ELSE cc[k]]

\* Mutant of set_history: one history shared by every user.
set_history_one_key(cc, key, ref) ==
    LET d == defaultdict_get(cc, "anon") IN [d EXCEPT !["anon"] = ref]

\* conversation_context[key]["history"] = ref
set_history(cc, key, ref) ==
    LET d == defaultdict_get(cc, key) IN [d EXCEPT ![key] = ref]

\* Mutant of exchange: the user's message is not recorded.
exchange_no_user(msg, reply) == << Entry("assistant", reply) >>

\* The two entries of lines 119-122.
exchange(msg, reply) == << Entry("user", msg), Entry("assistant", reply) >>

\* Mutant of truncate: the slice is forgotten.
truncate_none(list) == list

\* Mutant of truncate: hist[:10], the oldest entries are kept.
truncate_oldest(list) ==
    IF Len(list) <= H THEN list ELSE SubSeq(list, 1, H)

\* Mutant of truncate: hist[-9:], an odd cap.
truncate_odd(list) == last_n(list, H - 1)

\* hist[-10:]
truncate(list) == last_n(list, H)

\* The list stored for a key, as a reader of the dictionary sees it.
History(key) ==
    IF key \in DOMAIN conversation_context /\ conversation_context[key] # NoRef
    THEN heap[conversation_context[key]]
    ELSE <<>>

NoProbe == [text |-> <<>>, hour |-> 0, intent |-> "unset", reply |-> None]

\* The i-th exchange a session had before the behaviour starts: the
\* messages "oil" and "" in turn, each answered "ok".
warm_exchange(i) ==
    exchange(IF i % 2 = 1 THEN <<"o","i","l">> ELSE <<>>, <<"o","k">>)

\* Every entry appended to a session by its first n fallback round-trips.
RECURSIVE warm_log(_)
warm_log(n) == IF n = 0 THEN <<>> ELSE warm_log(n - 1) \o warm_exchange(n)

\* The history stored after those n round-trips, run one after the other
\* (lines 119-123 applied n times to an empty list).
RECURSIVE warm_history(_)
warm_history(n) ==
    IF n = 0 THEN <<>>
    ELSE truncate(warm_history(n - 1) \o warm_exchange(n))

\* The process is observed either right after start-up or after every
\* session of WarmKeys has served MaxWarm - 1 or MaxWarm round-trips.
WarmLevels == {0, MaxWarm - 1, MaxWarm}

\* Session keys in a fixed order, to number their list objects.
KeyOrder == CHOOSE f \in [1..Cardinality(WarmKeys) -> WarmKeys] :
                \A i, j \in DOMAIN f : i # j => f[i] # f[j]
ref_of(key) == CHOOSE i \in DOMAIN KeyOrder : KeyOrder[i] = key

InitState(n) ==
    /\ conversation_context =
           IF n = 0 THEN [k \in {} |-> NoRef]
           ELSE [k \in WarmKeys |-> ref_of(k)]
    /\ heap = [r \in Refs |->
                  IF n > 0 /\ r <= Cardinality(WarmKeys)
                  THEN warm_history(n) ELSE <<>>]
    /\ pc = [t \in Threads |-> "idle"]
    /\ user_msg = [t \in Threads |-> <<>>]
    /\ user_id = [t \in Threads |-> "anon"]
    /\ intent_reply = [t \in Threads |-> None]
    /\ hist = [t \in Threads |-> NoRef]
    /\ messages = [t \in Threads |-> <<>>]
    /\ llama_reply = [t \in Threads |-> None]
    /\ response = [t \in Threads |-> None]
    /\ terminal = [t \in Threads |-> "NONE"]
    /\ generate_calls = [t \in Threads |-> 0]
    /\ calls = 0
    /\ log = [k \in SessionKeys |->
                 IF k \in WarmKeys THEN warm_log(n) ELSE <<>>]

Init ==
    /\ \E n \in WarmLevels : InitState(n)
    /\ probe = NoProbe

\* A thread that is not running chatbot().
Free(t) == pc[t] \in {"idle", "done"}

\* No invocation of chatbot() is in progress.
Quiescent == \A t \in Threads : Free(t)


\* ------------------------------------------------------- chatbot(), by step
\* Lines 106-112: a request arrives and is handed to the first free worker
\* thread (the workers are interchangeable); the keyword intents are tried
\* and a truthy intent reply is returned at once.  These lines touch only
\* locals, so they are one step.
Request(t, msgs, uids) ==
    /\ Free(t)
    /\ \A s \in Threads : s < t => ~Free(s)
    /\ calls < MaxCalls
    /\ calls' = calls + 1
    /\ \E message \in msgs, uid \in uids, hour \in Hours :
        LET msg == json_get(message, <<>>)
            reply == handle_intents(msg, hour)
        IN
        /\ user_msg' = [user_msg EXCEPT ![t] = msg]
        /\ user_id' = [user_id EXCEPT ![t] = json_get_key(uid, "anon")]
        /\ intent_reply' = [intent_reply EXCEPT ![t] = reply]
        /\ IF truthy(reply)
           THEN /\ response' = [response EXCEPT ![t] = reply]
                /\ terminal' = [terminal EXCEPT ![t] = "INTENT_REPLY"]
                /\ pc' = [pc EXCEPT ![t] = "done"]
           ELSE /\ response' = [response EXCEPT ![t] = None]
                /\ terminal' = [terminal EXCEPT ![t] = "NONE"]
                /\ pc' = [pc EXCEPT ![t] = "get_history"]
    /\ messages' = [messages EXCEPT ![t] = <<>>]
    /\ llama_reply' = [llama_reply EXCEPT ![t] = None]
    /\ generate_calls' = [generate_calls EXCEPT ![t] = 0]
    /\ UNCHANGED << conversation_context, heap, hist, log, probe >>

\* A request that may run concurrently with others.
Receive(t) == Request(t, RequestMessages, ConcurrentUserIds)

\* A request that is served while no other invocation is in progress.
ReceiveAlone(t) == Quiescent /\ Request(t, RequestMessages, RequestUserIds)

\* Line 115: hist = conversation_context[user_id].get("history", [])
GetHistory(t) ==
    /\ pc[t] = "get_history"
    /\ LET cc == defaultdict_get(conversation_context, user_id[t])
           fresh == alloc(Live(conversation_context, hist))
       IN
        /\ conversation_context' = cc
        /\ hist' = [hist EXCEPT ![t] =
                       IF cc[user_id[t]] = NoRef THEN fresh ELSE cc[user_id[t]]]
        /\ heap' = collect(heap, Live(conversation_context', hist'))
    /\ pc' = [pc EXCEPT ![t] = "llama_chat"]
    /\ UNCHANGED << user_msg, user_id, intent_reply, messages, llama_reply,
                    response, terminal, generate_calls, calls, log, probe >>

\* Mutant of prompt: the history is left out of the prompt.
prompt_no_history(history, msg) == << Entry("user", msg) >>

\* Line 95: messages = history + [{"role": "user", "content": user_msg}]
prompt(history, msg) == history \o << Entry("user", msg) >>

\* Lines 116, 94-97: llama_chat returns the stripped completion.
LlamaChatReturns(t) ==
    /\ pc[t] = "llama_chat"
    /\ messages' = [messages EXCEPT ![t] = prompt(heap[hist[t]], user_msg[t])]
    /\ \E raw \in RawOutputs :
        llama_reply' = [llama_reply EXCEPT ![t] = strip(raw)]
    /\ generate_calls' = [generate_calls EXCEPT ![t] = @ + 1]
    /\ pc' = [pc EXCEPT ![t] = "extend"]
    /\ UNCHANGED << conversation_context, heap, user_msg, user_id,
                    intent_reply, hist, response, terminal, calls, log,
                    probe >>

\* Mutant of LlamaChatRaises: the user's message is appended to hist before
\* the model is called.
LlamaChatRaises_after_append(t) ==
    /\ pc[t] = "llama_chat"
    /\ messages' = [messages EXCEPT ![t] = prompt(heap[hist[t]], user_msg[t])]
    /\ terminal' = [terminal EXCEPT ![t] = "UNHANDLED_EXCEPTION"]
    /\ generate_calls' = [generate_calls EXCEPT ![t] = @ + 1]
    /\ pc' = [pc EXCEPT ![t] = "done"]
    /\ hist' = [hist EXCEPT ![t] = NoRef]
    /\ heap' = collect([heap EXCEPT ![hist[t]] =
                            @ \o << Entry("user", user_msg[t]) >>],
                       Live(conversation_context, hist'))
    /\ UNCHANGED << conversation_context, user_msg, user_id, intent_reply,
                    llama_reply, response, calls, log, probe >>

\* Lines 116, 96: create_chat_completion raises; nothing in chatbot() or
\* llama_chat() catches it, so the invocation ends with the exception.
LlamaChatRaises(t) ==
    /\ pc[t] = "llama_chat"
    /\ messages' = [messages EXCEPT ![t] = prompt(heap[hist[t]], user_msg[t])]
    /\ terminal' = [terminal EXCEPT ![t] = "UNHANDLED_EXCEPTION"]
    /\ generate_calls' = [generate_calls EXCEPT ![t] = @ + 1]
    /\ pc' = [pc EXCEPT ![t] = "done"]
    /\ hist' = [hist EXCEPT ![t] = NoRef]
    /\ heap' = collect(heap, Live(conversation_context, hist'))
    /\ UNCHANGED << conversation_context, user_msg, user_id, intent_reply,
                    llama_reply, response, calls, log, probe >>

\* Lines 119-122: hist.extend([...]) changes the list object in place.
Extend(t) ==
    /\ pc[t] = "extend"
    /\ heap' = [heap EXCEPT ![hist[t]] =
                   @ \o exchange(user_msg[t], llama_reply[t])]
    /\ log' = [log EXCEPT ![user_id[t]] =
                   @ \o exchange(user_msg[t], llama_reply[t])]
    /\ pc' = [pc EXCEPT ![t] = "store"]
    /\ UNCHANGED << conversation_context, user_msg, user_id, intent_reply,
                    hist, messages, llama_reply, response, terminal,
                    generate_calls, calls,
                    probe >>

\* Lines 123-125: the slice is a new list; it replaces the stored one and
\* the reply is returned.
Store(t) ==
    /\ pc[t] = "store"
    /\ LET new == alloc(Live(conversation_context, hist))
           hp == [heap EXCEPT ![new] = truncate(heap[hist[t]])]
       IN
        /\ conversation_context' =
               set_history(conversation_context, user_id[t], new)
        /\ hist' = [hist EXCEPT ![t] = NoRef]
        /\ heap' = collect(hp, Live(conversation_context', hist'))
    /\ response' = [response EXCEPT ![t] = llama_reply[t]]
    /\ terminal' = [terminal EXCEPT ![t] = "FALLBACK_REPLY"]
    /\ pc' = [pc EXCEPT ![t] = "done"]
    /\ UNCHANGED << user_msg, user_id, intent_reply, messages, llama_reply,
                    generate_calls, calls, log, probe >>

\* Any number of worker threads, interleaved at the steps above.
Next ==
    \E t \in Threads :
        \/ Receive(t)
        \/ GetHistory(t)
        \/ LlamaChatReturns(t)
        \/ LlamaChatRaises(t)
        \/ Extend(t)
        \/ Store(t)

Spec == Init /\ [][Next]_vars

\* Requests executed one at a time: a request is received only when no
\* invocation is in progress.
NextSeq ==
    \E t \in Threads :
        \/ ReceiveAlone(t)
        \/ GetHistory(t)
        \/ LlamaChatReturns(t)
        \/ LlamaChatRaises(t)
        \/ Extend(t)
        \/ Store(t)

SpecSeq == Init /\ [][NextSeq]_vars

\* --------------------------------------------------- the context window
\* CTX_SIZE, the n_ctx of the model (lines 26, 30).
CTX_SIZE == 2048

\* The size of the input that create_chat_completion is given.  The
\* tokenizer belongs to the model file, not to this program; here every
\* character of every message content is one token.
RECURSIVE input_tokens(_)
input_tokens(msgs) ==
    IF msgs = <<>> THEN 0
    ELSE Len(Head(msgs).content) + input_tokens(Tail(msgs))

\* A message that alone is larger than the context window.
LongMessage == [i \in 1..(CTX_SIZE + 1) |-> "a"]

\* A request of user "u1", served alone, whose message is "oil" or
\* LongMessage.
ReceiveLong(t) ==
    Quiescent /\ Request(t, { <<"o","i","l">>, LongMessage }, {"u1"})

NextCtx ==
    \E t \in Threads :
        \/ ReceiveLong(t)
        \/ GetHistory(t)
        \/ LlamaChatReturns(t)
        \/ LlamaChatRaises(t)
        \/ Extend(t)
        \/ Store(t)

SpecCtx == Init /\ [][NextCtx]_vars

\* ------------------------------------------- the intent rules on their own
\* Pieces of text; a probe text is up to MaxFragments of them in a row.
Fragments ==
    { <<"h","i">>, <<"H">>, <<"e","y">>, <<"H","E","L","L","O">>,
      <<"p","r","i","c","e">>, <<"P","R">>, <<"i","c","e">>, <<" ">>,
      <<"o","i","l">> }

RECURSIVE texts(_)
texts(n) ==
    IF n = 0 THEN { <<>> }
    ELSE texts(n - 1) \cup { t \o f : t \in texts(n - 1), f \in Fragments }

InitIntent ==
    /\ InitState(0)
    /\ probe \in [text : texts(MaxFragments), hour : Hours,
                  intent : {"unset"}, reply : {None}]

\* detect_intent and handle_intents applied to the probe text.
Probe ==
    /\ probe.intent = "unset"
    /\ probe' = [probe EXCEPT !.intent = detect_intent(probe.text),
                              !.reply = handle_intents(probe.text, probe.hour)]
    /\ UNCHANGED << conversation_context, heap, pc, user_msg, user_id,
                    intent_reply, hist, messages, llama_reply, response,
                    terminal, generate_calls, calls, log >>

NextIntent == Probe

SpecIntent == InitIntent /\ [][NextIntent]_vars

\* ------------------------------------------------------------- properties
\* The session store as its readers see it.
Histories == [k \in SessionKeys |-> History(k)]

\* Thread t has finished an invocation that took the fallback path and
\* whose model call returned.
FallbackDone(t) == pc[t] = "done" /\ terminal[t] = "FALLBACK_REPLY"

\* Thread t has finished an invocation whose model call was made and did
\* not return.
GenerateFailed(t) ==
    pc[t] = "done" /\ messages[t] # <<>> /\ llama_reply[t] = None

\* The history thread t's invocation read for its prompt.
ReadHistory(t) == SubSeq(messages[t], 1, Len(messages[t]) - 1)

\* The two entries a round-trip with this message and reply must append.
Pair(msg, reply) ==
    << [role |-> "user", content |-> msg],
       [role |-> "assistant", content |-> reply] >>

Min(a, b) == IF a <= b THEN a ELSE b

\* C1: with requests executed one at a time, whenever no invocation is in
\* progress every session's stored history has at most H = 10 entries.
C1_CapAfterEachInvocation ==
    Quiescent => \A k \in SessionKeys : Len(History(k)) <= H

\* C1 witness: a fallback round-trip has completed on a session that has
\* had more than H entries appended in all, and its history is full.
C1_Witness ==
    \E t \in Threads :
        /\ Quiescent
        /\ FallbackDone(t)
        /\ Len(log[user_id[t]]) > H
        /\ Len(History(user_id[t])) = H

\* C2: with requests executed one at a time, whenever no invocation is in
\* progress each session's history is exactly the last min(2n, H) entries
\* of everything its n round-trips appended, in order; and a round-trip
\* that found a full history leaves H entries: the eight newest of before,
\* then its own pair.
C2_FifoEviction ==
    Quiescent =>
        /\ \A k \in SessionKeys :
            LET n2 == Min(Len(log[k]), H) IN
            /\ Len(History(k)) = n2
            /\ \A i \in 1..n2 :
                History(k)[i] = log[k][Len(log[k]) - n2 + i]
        /\ \A t \in Threads :
            FallbackDone(t) /\ Len(ReadHistory(t)) = H =>
                /\ Len(History(user_id[t])) = H
                /\ \A i \in 1..(H - 2) :
                    History(user_id[t])[i] = ReadHistory(t)[i + 2]

\* C2 witness: a round-trip has completed that started from a full history.
C2_Witness ==
    \E t \in Threads :
        Quiescent /\ FallbackDone(t) /\ Len(ReadHistory(t)) = H

\* C3: with requests executed one at a time, a completed successful
\* fallback round-trip on a history of length p leaves min(p + 2, H)
\* entries whose last two are the user entry with the inbound message and
\* the assistant entry with the reply returned; from an empty history the
\* result is exactly those two.
C3_AppendsExchange ==
    \A t \in Threads :
        FallbackDone(t) =>
            LET after == History(user_id[t])
                p == Len(ReadHistory(t))
                n == Len(after)
            IN
            /\ n = Min(p + 2, H)
            /\ SubSeq(after, n - 1, n) = Pair(user_msg[t], response[t])
            /\ p = 0 => after = Pair(user_msg[t], response[t])

\* C3 witness: a round-trip has completed on a session that had no history.
C3_Witness ==
    \E t \in Threads :
        /\ FallbackDone(t)
        /\ ReadHistory(t) = <<>>
        /\ Len(History(user_id[t])) = 2

\* The message is matched by an intent rule.
IntentMatched(msg) == detect_intent(msg) # NoIntent

\* The thread a request is handed to.
Receiver == CHOOSE t \in Threads : Free(t) /\ \A s \in Threads : s < t => ~Free(s)

\* C4: a request whose message is matched by an intent rule is answered in
\* the INTENT_REPLY state without a model call, and handling it leaves the
\* history of every session as it was.
C4_IntentLeavesStore ==
    [][ (calls' = calls + 1 /\ IntentMatched(user_msg'[Receiver])) =>
            /\ pc'[Receiver] = "done"
            /\ terminal'[Receiver] = "INTENT_REPLY"
            /\ messages'[Receiver] = <<>>
            /\ Histories' = Histories ]_vars

\* C4 witness: an intent-matched request has been answered for a session
\* that holds a history.
C4_Witness ==
    \E t \in Threads :
        /\ pc[t] = "done"
        /\ terminal[t] = "INTENT_REPLY"
        /\ IntentMatched(user_msg[t])
        /\ Len(History(user_id[t])) = H

\* C5: when the model call fails, the invocation ends in the ERROR_REPLY
\* state and the caller receives a non-empty degraded-service message.
C5_FailureGivesDegradedReply ==
    \A t \in Threads :
        GenerateFailed(t) =>
            terminal[t] = "ERROR_REPLY" /\ truthy(response[t])

\* C6: with requests executed one at a time, after an invocation whose
\* model call failed the session's history is what it was before: the
\* history the prompt was built from, and the last H entries of what the
\* session's earlier round-trips appended.
C6_FailureLeavesHistory ==
    \A t \in Threads :
        GenerateFailed(t) =>
            /\ History(user_id[t]) = ReadHistory(t)
            /\ History(user_id[t]) = last_n(log[user_id[t]], H)

\* C6 witness: a model call has failed for a session that holds a history.
C6_Witness ==
    \E t \in Threads :
        GenerateFailed(t) /\ Len(History(user_id[t])) > 0

\* C7: concurrent fallback invocations for one session key behave as if
\* serialized: once none is in progress, the session's history is the last
\* H entries of all the pairs appended, in the order they were appended, so
\* no exchange is lost.
C7_SameKeySerialized ==
    Quiescent => \A k \in SessionKeys : History(k) = last_n(log[k], H)

\* C8: in every reachable state, under any interleaving, no session's
\* stored history holds more than H entries.
C8_NeverMoreThanH ==
    \A k \in SessionKeys : Len(History(k)) <= H

\* Thread t takes a step of the fallback path that writes a list.
Writes(t) == pc[t] \in {"extend", "store"} /\ pc'[t] # pc[t]

\* C9: under any interleaving, the history stored for a key changes only
\* in a step of an invocation for that key; an invocation for another key
\* never changes it.
C9_KeysIndependent ==
    [][ \A k \in SessionKeys :
            History(k)' # History(k) =>
                \E t \in Threads : user_id[t] = k /\ Writes(t) ]_vars

\* C9 witness: two invocations for different keys are both about to store.
C9_Witness ==
    \E t, u \in Threads :
        /\ user_id[t] # user_id[u]
        /\ pc[t] = "store"
        /\ pc[u] = "store"

\* The lowercased text contains a greet keyword / the price keyword.
HasGreetKeyword(text) ==
    \/ contains(<<"h","i">>, lower(text))
    \/ contains(<<"h","e","l","l","o">>, lower(text))
    \/ contains(<<"h","e","y">>, lower(text))
HasPriceKeyword(text) == contains(<<"p","r","i","c","e">>, lower(text))

\* The reply the greet responder gives at some hour.
IsGreetReply(reply) == \E h \in Hours : reply = salutation(h) \o GreetTail

\* C10: a text that contains a greet keyword is answered by the greet
\* responder also when it contains "price"; the price responder answers
\* only texts that contain "price" and no greet keyword.
C10_FirstRuleWins ==
    probe.intent # "unset" =>
        /\ HasGreetKeyword(probe.text) =>
            probe.intent = "greet" /\ IsGreetReply(probe.reply)
        /\ probe.reply = PriceReply =>
            HasPriceKeyword(probe.text) /\ ~HasGreetKeyword(probe.text)

\* C10 witness: a text with both a greet keyword and "price" has been
\* answered.
C10_Witness ==
    /\ probe.intent # "unset"
    /\ HasGreetKeyword(probe.text)
    /\ HasPriceKeyword(probe.text)

\* C11: every invocation uses a non-null session key: no thread reads or
\* writes a history with user_id None, and conversation_context never gets
\* an entry under the key None.
C11_SessionKeyNeverNull ==
    /\ \A t \in Threads :
        pc[t] \in {"llama_chat", "extend", "store"} => user_id[t] # NoneKey
    /\ NoneKey \notin DOMAIN conversation_context

\* C12: a completed successful fallback returns a non-empty reply and no
\* stored history holds an assistant entry with empty content (an empty
\* model result makes generate fail instead).
C12_NoEmptyReply ==
    /\ \A t \in Threads : FallbackDone(t) => truthy(response[t])
    /\ \A k \in SessionKeys : \A i \in 1..Len(History(k)) :
        History(k)[i].role = "assistant" => History(k)[i].content # <<>>

\* C13: the input handed to the model, history plus new message counted
\* in tokens, never exceeds the context window (the adapter drops the
\* oldest history entries until it fits).
C13_PromptFitsWindow ==
    \A t \in Threads :
        messages[t] # <<>> => input_tokens(messages[t]) <= CTX_SIZE

\* C14: every invocation follows the router state machine: the model is
\* called at most once, and exactly when the intent matcher returned no
\* match; a history is written only by an invocation whose model call has
\* returned and whose reply is not yet returned; and a finished invocation
\* is in one of the terminal states INTENT_REPLY, FALLBACK_REPLY,
\* ERROR_REPLY.
C14_RouterStateMachine ==
    \A t \in Threads :
        /\ generate_calls[t] <= 1
        /\ pc[t] = "done" =>
            (generate_calls[t] = 1 <=> intent_reply[t] = None)
        /\ pc[t] \in {"extend", "store"} =>
            /\ generate_calls[t] = 1
            /\ llama_reply[t] # None
            /\ response[t] = None
        /\ pc[t] = "done" =>
            terminal[t] \in {"INTENT_REPLY", "FALLBACK_REPLY", "ERROR_REPLY"}

\* The model has been called in thread t's invocation and nothing has been
\* written since.
ModelCalled(t) == pc[t] = "extend" \/ GenerateFailed(t)

\* C15: with requests executed one at a time, the prompt passed to the
\* model is the session's stored history followed by one user entry with
\* the inbound message; that history is the last H entries of what the
\* same session's earlier successful round-trips appended, and building
\* the prompt leaves it as stored.
C15_PromptIsHistoryThenMessage ==
    \A t \in Threads :
        ModelCalled(t) =>
            /\ messages[t] =
                   History(user_id[t]) \o
                       << [role |-> "user", content |-> user_msg[t]] >>
            /\ History(user_id[t]) = last_n(log[user_id[t]], H)

\* C15 witness: the model has been called with a full history before the
\* new message.
C15_Witness ==
    \E t \in Threads : pc[t] = "extend" /\ Len(messages[t]) = H + 1

\* C16: in every reachable state, under any interleaving, each stored
\* history has even length, its roles alternate user, assistant, ..., and
\* each of its user/assistant pairs is a pair that one invocation of that
\* session appended (extend adds both entries in one list operation);
\* truncation never splits a pair.
C16_PairsIntact ==
    \A k \in SessionKeys :
        LET h == History(k) IN
        /\ Len(h) % 2 = 0
        /\ \A i \in 1..Len(h) :
            h[i].role = IF i % 2 = 1 THEN "user" ELSE "assistant"
        /\ \A j \in 1..(Len(h) \div 2) :
            \E m \in 1..(Len(log[k]) \div 2) :
                /\ h[2 * j - 1] = log[k][2 * m - 1]
                /\ h[2 * j] = log[k][2 * m]

\* C16 witness: two invocations for one key have both extended the same
\* stored list, which now holds H + 4 entries, and neither has stored yet.
C16_Witness ==
    \E t, u \in Threads :
        /\ t # u
        /\ pc[t] = "store"
        /\ pc[u] = "store"
        /\ hist[t] = hist[u]
        /\ conversation_context[user_id[t]] = hist[t]
        /\ Len(History(user_id[t])) = H + 4

\* The reply begins with the given words.
StartsWith(reply, words) ==
    Len(reply) >= Len(words) /\ SubSeq(reply, 1, Len(words)) = words

\* C17: a text matched by the greet rule is answered with a reply that
\* begins "Good morning" iff the hour is below 12, "Good afternoon" iff it
\* is 12 to 16, "Good evening" iff it is 17 or later; the reply is truthy,
\* so chatbot returns it at line 112, and no history exists for the new
\* session.
C17_SalutationByHour ==
    (probe.intent # "unset" /\ HasGreetKeyword(probe.text)) =>
        /\ StartsWith(probe.reply, <<"G","o","o","d"," ","m","o","r","n","i","n","g">>)
               <=> probe.hour < 12
        /\ StartsWith(probe.reply, <<"G","o","o","d"," ","a","f","t","e","r","n","o","o","n">>)
               <=> (12 <= probe.hour /\ probe.hour < 17)
        /\ StartsWith(probe.reply, <<"G","o","o","d"," ","e","v","e","n","i","n","g">>)
               <=> probe.hour >= 17
        /\ truthy(probe.reply)
        /\ \A k \in SessionKeys : Len(History(k)) = 0

\* C17 witness: a greeting has been answered at noon with "Good afternoon".
C17_Witness ==
    /\ probe.intent = "greet"
    /\ probe.hour = 12
    /\ StartsWith(probe.reply, <<"G","o","o","d"," ","a","f","t","e","r","n","o","o","n">>)

\* C18: with requests executed one at a time, an invocation whose message
\* is empty (or whose request has no "message" field) gets no intent reply:
\* it ends only after one model call whose prompt ends with a user entry of
\* empty content, and when that call returns, the session's history ends
\* with that user entry followed by the assistant reply that is returned.
C18_EmptyMessageFallsBack ==
    \A t \in Threads :
        (pc[t] # "idle" /\ user_msg[t] = <<>>) =>
            /\ ~truthy(intent_reply[t])
            /\ terminal[t] # "INTENT_REPLY"
            /\ pc[t] = "done" => generate_calls[t] = 1
            /\ generate_calls[t] = 1 =>
                   /\ messages[t] # <<>>
                   /\ messages[t][Len(messages[t])] =
                          [role |-> "user", content |-> <<>>]
            /\ FallbackDone(t) =>
                   /\ response[t] = llama_reply[t]
                   /\ last_n(History(user_id[t]), 2) = Pair(<<>>, response[t])

\* C18 witness: a fallback round-trip with an empty message has completed
\* with a non-empty reply on a session that already had a history.
C18_Witness ==
    \E t \in Threads :
        /\ FallbackDone(t)
        /\ user_msg[t] = <<>>
        /\ response[t] = <<"o","k">>
        /\ Len(History(user_id[t])) > 2

\* C19: no invocation works on a history of more than H entries: the list
\* an invocation holds when it is about to call the model, and the history
\* part of every prompt passed to the model, have at most H entries (a
\* longer stored history would have been reset to empty after the write
\* that produced it).
C19_LongHistoryNotCarried ==
    \A t \in Threads :
        /\ pc[t] = "llama_chat" => Len(heap[hist[t]]) <= H
        /\ messages[t] # <<>> => Len(ReadHistory(t)) <= H

====
